---- MODULE Spec2Model ----
(***************************************************************************)
(* A model of ArgParse (IMQS/argparse), the header-only command line       *)
(* argument parser of src/argparse.h.                                      *)
(*                                                                         *)
(* Strings are sequences of one-character strings, so that FindOption's    *)
(* strcmp(arg + 1) / strcmp(arg + 2), IsNumeric's character scan and the   *)
(* constructor's find(' ') are computed as the code computes them.         *)
(* An Args object is a record with the fields of class Args; an Option is  *)
(* a record with the fields of class Option (Summary and Usage only feed   *)
(* the printed help text and are left out).  Pointers into Options and     *)
(* Commands are 1-based indices, 0 is nullptr.  argv is a sequence whose   *)
(* first element is argv[0]: the C index i is the TLA+ index i + 1.        *)
(***************************************************************************)
EXTENDS Integers, Sequences, FiniteSets, TLC

\* ------------------------------------------------------------------------
\* Bounds of the exploration
\* ------------------------------------------------------------------------

\* Longest token list (after argv[0]) a caller passes to Parse.
MaxTokens == 3

\* Parse calls are explored while no positional list grows beyond this.
MaxParams == 2

\* Largest startAt a caller passes to Parse.
MaxStart == 2

\* Parse calls made on one Args object.
MaxCalls == 2

\* ------------------------------------------------------------------------
\* class Option, class Args: construction
\* ------------------------------------------------------------------------

HasShort(opt) == Len(opt.Short) # 0

\* Args(std::string usage)
ArgsUsage ==
  [ Options          |-> << >>,
    Params           |-> << >>,
    Commands         |-> << >>,
    WasHelpShown     |-> FALSE,
    CmdName          |-> << >>,
    CmdParams        |-> << >>,
    CmdFunc          |-> "nullptr",
    CmdEnforceParams |-> TRUE,
    CmdWasChosen     |-> FALSE ]

\* std::string::find(' '): the 1-based index of the first space, 0 for npos.
RECURSIVE FindSpace(_, _)
FindSpace(s, k) ==
  IF k > Len(s) THEN 0
  ELSE IF s[k] = " " THEN k
  ELSE FindSpace(s, k + 1)

\* Args(std::string cmdName, std::string usage, CmdFunc func)
ArgsCmd(cmdName, func) ==
  LET space == FindSpace(cmdName, 1) IN
  IF space # 0
  THEN [ ArgsUsage EXCEPT !.CmdName   = SubSeq(cmdName, 1, space - 1),
                          !.CmdParams = SubSeq(cmdName, space + 1, Len(cmdName)),
                          !.CmdFunc   = func ]
  ELSE [ ArgsUsage EXCEPT !.CmdName = cmdName, !.CmdFunc = func ]

AddSwitch(a, short, long) ==
  [ a EXCEPT !.Options = Append(@,
      [ ExpectsValue |-> FALSE, Short |-> short, Long |-> long,
        Default |-> << "0" >>, Toggled |-> FALSE, Value |-> << >> ]) ]

AddValue(a, short, long, defaultValue) ==
  [ a EXCEPT !.Options = Append(@,
      [ ExpectsValue |-> TRUE, Short |-> short, Long |-> long,
        Default |-> defaultValue, Toggled |-> FALSE, Value |-> << >> ]) ]

AddCommand(a, name, func) ==
  [ a EXCEPT !.Commands = Append(@, ArgsCmd(name, func)) ]

\* ------------------------------------------------------------------------
\* Helpers of Parse
\* ------------------------------------------------------------------------

RECURSIVE CountOpen(_, _)
CountOpen(s, k) ==
  IF k > Len(s) THEN 0
  ELSE (IF s[k] = "<" THEN 1 ELSE 0) + CountOpen(s, k + 1)

CmdParamsCount(a) == CountOpen(a.CmdParams, 1)

\* The option at index k matches arg as -<Short> or as --<Long>.
OptionMatches(opt, arg) ==
  \/ HasShort(opt) /\ opt.Short = Tail(arg)
  \/ Len(arg) >= 2 /\ arg[2] = "-" /\ opt.Long = SubSeq(arg, 3, Len(arg))

RECURSIVE FindOptionFrom(_, _, _)
FindOptionFrom(a, arg, k) ==
  IF k > Len(a.Options) THEN 0
  ELSE IF OptionMatches(a.Options[k], arg) THEN k
  ELSE FindOptionFrom(a, arg, k + 1)

\* Option* FindOption(const char* arg): index of the first match, 0 if none.
FindOption(a, arg) == FindOptionFrom(a, arg, 1)

IsNumericChar(c) ==
  c \in { "0", "1", "2", "3", "4", "5", "6", "7", "8", "9", "-", "+", ".", "e" }

IsNumeric(s) == \A k \in 1..Len(s) : IsNumericChar(s[k])

\* The spellings compared at the unmatched-option branch of Parse.
IsHelpSpelling(a) ==
  \/ a = << "-", "h" >>
  \/ a = << "-", "h", "e", "l", "p" >>
  \/ a = << "-", "-", "h", "e", "l", "p" >>
  \/ a = << "-", "?" >>
  \/ a = << "/", "?" >>
  \/ a = << "/", "h" >>
  \/ a = << "/", "h", "e", "l", "p" >>

RECURSIVE FindCommandFrom(_, _, _)
FindCommandFrom(a, name, k) ==
  IF k > Len(a.Commands) THEN 0
  ELSE IF a.Commands[k].CmdName = name THEN k
  ELSE FindCommandFrom(a, name, k + 1)

\* for (Args* c : Commands) if (c->CmdName == name): first match, 0 if none.
FindCommand(a, name) == FindCommandFrom(a, name, 1)

\* SanityOptions with one set of seen names for the short names and another
\* for the long names.
RECURSIVE SanityOptionsSeparate(_, _, _)
SanityOptionsSeparate(a, k, seen) ==
  IF k > Len(a.Options) THEN TRUE
  ELSE LET opt == a.Options[k] IN
       IF HasShort(opt) /\ Len(opt.Short) # 1 THEN FALSE
       ELSE IF HasShort(opt) /\ << "short", opt.Short >> \in seen THEN FALSE
       ELSE IF << "long", opt.Long >> \in seen THEN FALSE
       ELSE SanityOptionsSeparate(a, k + 1,
              seen \cup (IF HasShort(opt) THEN { << "short", opt.Short >> } ELSE { })
                   \cup { << "long", opt.Long >> })

RECURSIVE SanityOptions(_, _, _)
SanityOptions(a, k, seen) ==
  IF k > Len(a.Options) THEN TRUE
  ELSE LET opt == a.Options[k] IN
       IF HasShort(opt) /\ Len(opt.Short) # 1 THEN FALSE
       ELSE IF HasShort(opt) /\ opt.Short \in seen THEN FALSE
       ELSE IF opt.Long \in seen THEN FALSE
       ELSE SanityOptions(a, k + 1,
              seen \cup (IF HasShort(opt) THEN { opt.Short } ELSE { })
                   \cup { opt.Long })

\* ValidateSanity that does not descend into the commands.
ValidateSanityShallow(a, depth) ==
  IF ~SanityOptions(a, 1, { }) THEN FALSE
  ELSE IF depth = 1 /\ Len(a.Commands) # 0 THEN FALSE
  ELSE ~(Len(a.Commands) # 0 /\ Len(a.Params) # 0)

RECURSIVE ValidateSanity(_, _)
ValidateSanity(a, depth) ==
  IF ~SanityOptions(a, 1, { }) THEN FALSE
  ELSE IF depth = 1 /\ Len(a.Commands) # 0 THEN FALSE
  ELSE IF Len(a.Commands) # 0 /\ Len(a.Params) # 0 THEN FALSE
  ELSE \A c \in 1..Len(a.Commands) : ValidateSanity(a.Commands[c], depth + 1)

\* Reset that sets the Value of every option to its Default.
RECURSIVE ResetToDefault(_)
ResetToDefault(a) ==
  [ a EXCEPT
      !.Options  = [ k \in 1..Len(a.Options) |->
                       [ a.Options[k] EXCEPT !.Toggled = FALSE,
                                             !.Value = a.Options[k].Default ] ],
      !.Commands = [ c \in 1..Len(a.Commands) |->
                       [ ResetToDefault(a.Commands[c]) EXCEPT !.CmdWasChosen = FALSE ] ] ]

\* Reset that leaves CmdWasChosen of the commands as it is.
RECURSIVE ResetKeepChosen(_)
ResetKeepChosen(a) ==
  [ a EXCEPT
      !.Options  = [ k \in 1..Len(a.Options) |->
                       [ a.Options[k] EXCEPT !.Toggled = FALSE, !.Value = << >> ] ],
      !.Commands = [ c \in 1..Len(a.Commands) |-> ResetKeepChosen(a.Commands[c]) ] ]

RECURSIVE Reset(_)
Reset(a) ==
  [ a EXCEPT
      !.Options  = [ k \in 1..Len(a.Options) |->
                       [ a.Options[k] EXCEPT !.Toggled = FALSE, !.Value = << >> ] ],
      !.Commands = [ c \in 1..Len(a.Commands) |->
                       Reset([ a.Commands[c] EXCEPT !.CmdWasChosen = FALSE ]) ] ]

\* ShowHelpInternal that prints and leaves WasHelpShown as it is.
ShowHelpInternalNoFlag(a, depth, forCmd) == a

\* void ShowHelpInternal(int depth, std::string forCmd): the printed text is
\* left out, the effect on WasHelpShown is kept.
ShowHelpInternal(a, depth, forCmd) ==
  IF forCmd # << >>
  THEN LET c == FindCommand(a, forCmd) IN
       IF c # 0
       THEN [ a EXCEPT !.Commands[c].WasHelpShown = TRUE ]
       ELSE a
  ELSE [ a EXCEPT !.WasHelpShown = TRUE ]

ShowHelp(a) == ShowHelpInternal(a, 0, << >>)

\* ------------------------------------------------------------------------
\* bool Parse(int argc, const char** argv, int startAt)
\* ------------------------------------------------------------------------

\* The Args object the option lookup and the positional list belong to:
\* cmd ? cmd : this.
Active(a, cmd) == IF cmd # 0 THEN a.Commands[cmd] ELSE a

\* Toggle that sets the option of the root whatever the active object is.
ToggleRoot(a, cmd, opt, value) ==
  [ a EXCEPT !.Options[opt].Toggled = TRUE,
             !.Options[opt].Value   = value ]

\* Toggle that leaves the Value of the option alone.
ToggleNoValue(a, cmd, opt, value) ==
  IF cmd # 0
  THEN [ a EXCEPT !.Commands[cmd].Options[opt].Toggled = TRUE ]
  ELSE [ a EXCEPT !.Options[opt].Toggled = TRUE ]

\* opt->Toggled = true (and opt->Value = value for a value option), on the
\* option opt of the active object.
Toggle(a, cmd, opt, value) ==
  IF cmd # 0
  THEN [ a EXCEPT !.Commands[cmd].Options[opt].Toggled = TRUE,
                  !.Commands[cmd].Options[opt].Value   = value ]
  ELSE [ a EXCEPT !.Options[opt].Toggled = TRUE,
                  !.Options[opt].Value   = value ]

\* PushParam with the new positional put in front of the list.
PushParamFront(a, cmd, arg) ==
  IF cmd # 0
  THEN [ a EXCEPT !.Commands[cmd].Params = << arg >> \o @ ]
  ELSE [ a EXCEPT !.Params = << arg >> \o @ ]

\* cmd ? cmd->Params.push_back(arg) : Params.push_back(arg)
PushParam(a, cmd, arg) ==
  IF cmd # 0
  THEN [ a EXCEPT !.Commands[cmd].Params = Append(@, arg) ]
  ELSE [ a EXCEPT !.Params = Append(@, arg) ]

\* return false from inside the loop, after printing msg.
Fail(st, msg) == [ st EXCEPT !.done = TRUE, !.ret = FALSE, !.msg = msg ]

\* The command / positional part of the loop body, reached by a token that
\* does not start with '-' or by a numeric one that matched no option.
ParsePositional(st, argc, argv) ==
  LET a     == st.a
      i     == st.i
      atEnd == i = argc - 1
      arg   == argv[i + 1]
  IN
  IF Len(a.Commands) # 0 /\ st.cmd = 0
  THEN LET c == FindCommand(a, arg) IN
       IF c # 0
       THEN [ st EXCEPT !.a = [ a EXCEPT !.Commands[c].CmdWasChosen = TRUE ],
                        !.cmd = c, !.i = i + 1 ]
       ELSE IF arg = << "h", "e", "l", "p" >> /\ ~atEnd
       THEN Fail([ st EXCEPT !.a = ShowHelpInternal(a, 0, argv[i + 2]) ], "help")
       ELSE IF arg = << "h", "e", "l", "p" >>
       THEN Fail([ st EXCEPT !.a = ShowHelpInternal(a, 0, << >>) ], "help")
       ELSE Fail(st, "unknown command")
  ELSE [ st EXCEPT !.a = PushParam(a, st.cmd, arg), !.i = i + 1 ]

\* One iteration of the for loop, on the token argv[i].
ParseStep(st, argc, argv) ==
  LET a     == st.a
      i     == st.i
      atEnd == i = argc - 1
      arg   == argv[i + 1]
      opt   == FindOption(Active(a, st.cmd), arg)
  IN
  IF Len(arg) # 0 /\ arg[1] = "-"
  THEN IF opt # 0
       THEN LET o == Active(a, st.cmd).Options[opt] IN
            IF o.ExpectsValue /\ atEnd
            THEN Fail(st, "missing value")
            ELSE IF o.ExpectsValue
            THEN [ st EXCEPT !.a = Toggle(a, st.cmd, opt, argv[i + 2]), !.i = i + 2 ]
            ELSE [ st EXCEPT !.a = Toggle(a, st.cmd, opt, o.Value), !.i = i + 1 ]
       ELSE IF IsHelpSpelling(arg)
       THEN IF atEnd
            THEN Fail([ st EXCEPT !.a = ShowHelp(a) ], "help")
            ELSE Fail([ st EXCEPT !.a = ShowHelpInternal(a, 0, argv[i + 2]) ], "help")
       ELSE IF IsNumeric(arg)
       THEN ParsePositional(st, argc, argv)
       ELSE Fail(st, "unknown option")
  ELSE ParsePositional(st, argc, argv)

RECURSIVE ParseLoop(_, _, _)
ParseLoop(st, argc, argv) ==
  IF st.done \/ st.i >= argc THEN st
  ELSE ParseLoop(ParseStep(st, argc, argv), argc, argv)

\* The check after the loop: the chosen command's parameter count.
ParseFinish(st) ==
  IF st.done THEN st
  ELSE IF /\ st.cmd # 0
          /\ st.a.Commands[st.cmd].CmdEnforceParams
          /\ Len(st.a.Commands[st.cmd].Params) # CmdParamsCount(st.a.Commands[st.cmd])
  THEN Fail(st, "parameter count")
  ELSE [ st EXCEPT !.done = TRUE, !.ret = TRUE ]

\* Parse whose loop starts one token after startAt.
ParseSkipFirst(a, argc, argv, startAt) ==
  IF ~ValidateSanity(a, 0)
  THEN [ a |-> a, cmd |-> 0, i |-> startAt, done |-> TRUE, ret |-> FALSE, msg |-> "sanity" ]
  ELSE ParseFinish(ParseLoop(
         [ a |-> Reset(a), cmd |-> 0, i |-> startAt + 1, done |-> FALSE, ret |-> FALSE, msg |-> "" ],
         argc, argv))

\* Parse: the object after the call, the value returned, the diagnostic
\* printed ("" when none) and the command pointer cmd at the return.
Parse(a, argc, argv, startAt) ==
  IF ~ValidateSanity(a, 0)
  THEN [ a |-> a, cmd |-> 0, i |-> startAt, done |-> TRUE, ret |-> FALSE, msg |-> "sanity" ]
  ELSE ParseFinish(ParseLoop(
         [ a |-> Reset(a), cmd |-> 0, i |-> startAt, done |-> FALSE, ret |-> FALSE, msg |-> "" ],
         argc, argv))

\* ------------------------------------------------------------------------
\* The header without commands, src/unnamed/part_001.  Its Option class, its
\* AddSwitch, AddValue and FindOption are those of src/argparse.h word for
\* word, and its ValidateSanity is the options loop of the newer one.
\* ------------------------------------------------------------------------

\* The Args object of that header with the options of a: Options and Params
\* are all its state.
ArgsOld(a) == [ Options |-> a.Options, Params |-> a.Params ]

\* The loop at the top of its Parse: every option untoggled, its Value "".
ResetOld(a) ==
  [ a EXCEPT !.Options = [ k \in 1..Len(a.Options) |->
                             [ a.Options[k] EXCEPT !.Toggled = FALSE, !.Value = << >> ] ] ]

\* One iteration of its for loop, on the token argv[i].
ParseStepOld(st, argc, argv) ==
  LET a     == st.a
      i     == st.i
      atEnd == i = argc - 1
      arg   == argv[i + 1]
      opt   == FindOption(a, arg)
  IN
  IF Len(arg) # 0 /\ arg[1] = "-"
  THEN IF opt = 0
       THEN IF IsHelpSpelling(arg) /\ atEnd
            THEN Fail(st, "help")
            ELSE Fail(st, "unknown option")
       ELSE IF a.Options[opt].ExpectsValue /\ atEnd
       THEN Fail(st, "missing value")
       ELSE IF a.Options[opt].ExpectsValue
       THEN [ st EXCEPT !.a.Options[opt].Value = argv[i + 2],
                        !.a.Options[opt].Toggled = TRUE, !.i = i + 2 ]
       ELSE [ st EXCEPT !.a.Options[opt].Toggled = TRUE, !.i = i + 1 ]
  ELSE [ st EXCEPT !.a.Params = Append(@, arg), !.i = i + 1 ]

RECURSIVE ParseLoopOld(_, _, _)
ParseLoopOld(st, argc, argv) ==
  IF st.done THEN st
  ELSE IF st.i >= argc THEN [ st EXCEPT !.done = TRUE, !.ret = TRUE ]
  ELSE ParseLoopOld(ParseStepOld(st, argc, argv), argc, argv)

\* Parse of that header.
ParseOld(a, argc, argv, startAt) ==
  IF ~SanityOptions(a, 1, { })
  THEN [ a |-> a, i |-> startAt, done |-> TRUE, ret |-> FALSE, msg |-> "sanity" ]
  ELSE ParseLoopOld(
         [ a |-> ResetOld(a), i |-> startAt, done |-> FALSE, ret |-> FALSE, msg |-> "" ],
         argc, argv)

\* ------------------------------------------------------------------------
\* The header test.cpp is written against: Args::ParseEnd and
\* Args::IgnoreAfter.  src/argparse.h has neither; this part follows the
\* specification (sections 3 and 4.2) and test.cpp:78-112, on top of the loop
\* body of src/argparse.h.
\* ------------------------------------------------------------------------

\* An Args object of that header: the fields of a, ParseEnd and IgnoreAfter.
RECURSIVE WithParseEnd(_)
WithParseEnd(a) ==
  [ ParseEnd         |-> 0,
    IgnoreAfter      |-> FALSE,
    Options          |-> a.Options,
    Params           |-> a.Params,
    Commands         |-> [ c \in 1..Len(a.Commands) |-> WithParseEnd(a.Commands[c]) ],
    WasHelpShown     |-> a.WasHelpShown,
    CmdName          |-> a.CmdName,
    CmdParams        |-> a.CmdParams,
    CmdFunc          |-> a.CmdFunc,
    CmdEnforceParams |-> a.CmdEnforceParams,
    CmdWasChosen     |-> a.CmdWasChosen ]

\* The loop of Parse with the two early ends: a -- token after the command,
\* and the selection of a command that has IgnoreAfter set.  Either leaves i
\* just past the token that ended the pass.
RECURSIVE ParseLoopEnd(_, _, _)
ParseLoopEnd(st, argc, argv) ==
  IF st.done \/ st.i >= argc THEN st
  ELSE IF st.cmd # 0 /\ argv[st.i + 1] = << "-", "-" >>
  THEN [ st EXCEPT !.i = st.i + 1 ]
  ELSE LET n == ParseStep(st, argc, argv) IN
       IF ~n.done /\ st.cmd = 0 /\ n.cmd # 0 /\ n.a.Commands[n.cmd].IgnoreAfter
       THEN n
       ELSE ParseLoopEnd(n, argc, argv)

\* Parse of that header: ParseEnd is recorded when the pass ends without a
\* failure, before the parameter count is checked.
ParseWithEnd(a, argc, argv, startAt) ==
  IF ~ValidateSanity(a, 0)
  THEN [ a |-> a, cmd |-> 0, i |-> startAt, done |-> TRUE, ret |-> FALSE, msg |-> "sanity" ]
  ELSE LET st == ParseLoopEnd(
                   [ a |-> Reset(a), cmd |-> 0, i |-> startAt, done |-> FALSE,
                     ret |-> FALSE, msg |-> "" ], argc, argv)
       IN IF st.done THEN st
          ELSE ParseFinish([ st EXCEPT !.a.ParseEnd = st.i ])

\* ------------------------------------------------------------------------
\* Results
\* ------------------------------------------------------------------------

RECURSIVE WhichCommandFrom(_, _)
WhichCommandFrom(a, k) ==
  IF k > Len(a.Commands) THEN 0
  ELSE IF a.Commands[k].CmdWasChosen THEN k
  ELSE WhichCommandFrom(a, k + 1)

\* Args* WhichCommand(): the first command with CmdWasChosen, 0 for nullptr.
WhichCommand(a) == WhichCommandFrom(a, 1)

\* The handlers of test.cpp, Foo and Bar: the value each returns.
CallCmdFunc(func, cmdArgs) ==
  CASE func = "Foo" -> 0
    [] func = "Bar" -> 1

\* int ExecCommand(): the value returned and the command the handler was
\* called on (0 when no handler was called).  Calling an empty std::function
\* throws std::bad_function_call.
ExecCommand(a) ==
  LET cmd == WhichCommand(a) IN
  IF cmd = 0
  THEN [ outcome |-> "return", ret |-> 1, called |-> 0 ]
  ELSE IF a.Commands[cmd].CmdFunc = "nullptr"
  THEN [ outcome |-> "bad_function_call", ret |-> 0, called |-> 0 ]
  ELSE [ outcome |-> "return",
         ret     |-> CallCmdFunc(a.Commands[cmd].CmdFunc, a.Commands[cmd]),
         called  |-> cmd ]

RECURSIVE FindNameFrom(_, _, _)
FindNameFrom(a, name, k) ==
  IF k > Len(a.Options) THEN 0
  ELSE IF \/ HasShort(a.Options[k]) /\ a.Options[k].Short = name
          \/ a.Options[k].Long = name
  THEN k
  ELSE FindNameFrom(a, name, k + 1)

\* bool Has(const std::string& _short_or_long)
Has(a, name) ==
  LET k == FindNameFrom(a, name, 1) IN
  IF k # 0 THEN a.Options[k].Toggled ELSE FALSE

\* std::string Get(const std::string& _short_or_long)
Get(a, name) ==
  LET k == FindNameFrom(a, name, 1) IN
  IF k = 0 THEN << >>
  ELSE IF ~a.Options[k].ExpectsValue
  THEN (IF a.Options[k].Toggled THEN << "1" >> ELSE << "0" >>)
  ELSE IF a.Options[k].Toggled THEN a.Options[k].Value
  ELSE a.Options[k].Default

\* ------------------------------------------------------------------------
\* The programs explored: schemas built as the callers of the library build
\* them, each with the tokens its command lines are made of
\* ------------------------------------------------------------------------

\* Simple() of test.cpp.
BuildSimple ==
  LET a1 == AddSwitch(ArgsUsage, << "f" >>, << "f", "o", "r", "c", "e" >>)
      a2 == AddSwitch(a1, << "p" >>, << "p", "r", "e", "s", "e", "r", "v", "e" >>)
      a3 == AddValue(a2, << "o" >>, << "o", "u", "t", "f", "i", "l", "e" >>, << >>)
      a4 == AddValue(a3, << "c" >>, << "c", "o", "u", "n", "t" >>, << "7" >>)
  IN AddValue(a4, << >>, << "j", "u", "s", "t", "l", "o", "n", "g" >>, << >>)

\* A program without commands that declares the short name h itself.
BuildHelpShort == AddSwitch(ArgsUsage, << "h" >>, << "h", "o", "s", "t" >>)

\* A program without commands that declares the long name help itself.
BuildHelpLong == AddValue(ArgsUsage, << >>, << "h", "e", "l", "p" >>, << >>)

\* The first example of readme.md, reduced to its switch.
BuildForce == AddSwitch(ArgsUsage, << "f" >>, << "f", "o", "r", "c", "e" >>)

\* WithCommands() of test.cpp: a top-level switch and the commands foo (with
\* a switch of its own), bar and end (registered without a handler).
BuildCommands ==
  LET a1 == AddSwitch(ArgsUsage, << "v" >>, << "v", "e", "r", "b", "o", "s", "e" >>)
      a2 == AddCommand(a1, << "f", "o", "o" >>, "Foo")
      a3 == [ a2 EXCEPT !.Commands[1] = AddSwitch(@, << "f" >>, << "f", "o", "o", "1" >>) ]
      a4 == AddCommand(a3, << "b", "a", "r" >>, "Bar")
  IN AddCommand(a4, << "e", "n", "d" >>, "nullptr")

\* The second example of readme.md: foo <src> <dst> with a switch v, which the
\* root declares too, and a command x <p> that does not enforce its count.
BuildParams ==
  LET a1 == AddSwitch(ArgsUsage, << "v" >>, << "v", "e", "r", "b", "o", "s", "e" >>)
      a2 == AddCommand(a1, << "f", "o", "o", " ", "<", "s", "r", "c", ">", " ",
                              "<", "d", "s", "t", ">" >>, "Foo")
      a3 == [ a2 EXCEPT !.Commands[1] = AddSwitch(@, << "v" >>, << "v", "e", "r", "b" >>) ]
      a4 == AddCommand(a3, << "x", " ", "<", "p", ">" >>, "Bar")
  IN [ a4 EXCEPT !.Commands[2].CmdEnforceParams = FALSE ]

\* A root with the value option o/out of readme.md:33 and a command foo that
\* has a value option c/cnt of its own.
BuildValue ==
  LET a1 == AddValue(ArgsUsage, << "o" >>, << "o", "u", "t" >>, << >>)
      a2 == AddCommand(a1, << "f", "o", "o" >>, "Foo")
  IN [ a2 EXCEPT !.Commands[1] = AddValue(@, << "c" >>, << "c", "n", "t" >>, << "1" >>) ]

\* WithCommands() of test.cpp with IgnoreAfter set on end (test.cpp:66-67).
BuildEnd ==
  [ WithParseEnd(BuildCommands) EXCEPT !.Commands[3].IgnoreAfter = TRUE ]

\* subEnd of test.cpp:99-101.
BuildSubEnd ==
  LET a1 == AddSwitch(ArgsUsage, << "v" >>, << "v", "o", "o" >>)
  IN AddSwitch(a1, << "e" >>, << "e", "n", "d", "O", "p", "t", "i", "o", "n" >>)

NoCommandScenarios == { "Simple", "HelpShort", "HelpLong", "Slash" }

CommandScenarios == { "Commands", "Exec", "CmdHelp", "Params" }

Scenarios == NoCommandScenarios \cup CommandScenarios

\* The Args object of a scenario, as constructed.
Build(s) ==
  CASE s = "Simple"    -> BuildSimple
    [] s = "HelpShort" -> BuildHelpShort
    [] s = "HelpLong"  -> BuildHelpLong
    [] s = "Slash"     -> BuildForce
    [] s = "Commands"  -> BuildCommands
    [] s = "Exec"      -> BuildCommands
    [] s = "CmdHelp"   -> BuildCommands
    [] s = "Params"    -> BuildParams
    [] s = "End"       -> BuildEnd
    [] s = "Numeric"   -> BuildSimple
    [] s = "Value"     -> BuildValue
    [] s = "Chosen"    -> BuildValue
    [] s = "SanityFlat" -> BuildForce
    [] s = "SanityCmd"  -> BuildCommands

\* The tokens a scenario's command lines are made of.
Vocabulary(s) ==
  CASE s = "Simple"    -> { << "-", "f" >>,
                            << "-", "-", "o", "u", "t", "f", "i", "l", "e" >>,
                            << "p", "o", "s", "1" >>, << "p", "o", "s", "2" >> }
    [] s = "HelpShort" -> { << "-", "h" >>, << "-", "-", "h", "e", "l", "p" >>,
                            << "p", "o", "s", "1" >> }
    [] s = "HelpLong"  -> { << "-", "h" >>, << "-", "-", "h", "e", "l", "p" >>,
                            << "p", "o", "s", "1" >> }
    [] s = "Slash"     -> { << "/", "?" >>, << "/", "h" >>, << "/", "h", "e", "l", "p" >>,
                            << "-", "?" >>, << "-", "h", "e", "l", "p" >> }
    [] s = "Commands"  -> { << "-", "v" >>, << "f", "o", "o" >>,
                            << "-", "-", "f", "o", "o", "1" >>, << "n", "o", "p" >> }
    [] s = "Exec"      -> { << "f", "o", "o" >>, << "b", "a", "r" >>, << "e", "n", "d" >> }
    [] s = "CmdHelp"   -> { << "-", "h" >>, << "h", "e", "l", "p" >>,
                            << "f", "o", "o" >>, << "n", "o", "p" >> }
    [] s = "Params"    -> { << "f", "o", "o" >>, << "x" >>, << "-", "v" >>, << "a" >> }
    [] s = "End"       -> { << "-", "v" >>, << "e", "n", "d" >>, << "f", "o", "o" >>,
                            << "-", "-", "e", "n", "d", "O", "p", "t", "i", "o", "n" >>,
                            << "-", "-" >> }
    [] s = "Numeric"   -> { << "-", "b", "a", "d" >>, << "-", "5" >>, << "-", "-" >>,
                            << "-", "e" >>, << "-" >> }
    [] s = "SanityFlat" -> { << "-", "f" >>, << "p", "o", "s", "1" >>, << "f", "o", "o" >> }
    [] s = "SanityCmd"  -> { << "-", "v" >>, << "f", "o", "o" >>,
                             << "-", "-", "f", "o", "o", "1" >> }
    [] s = "Chosen"    -> { << "f", "o", "o" >>, << "-", "c" >>, << "-", "o" >> }
    [] s = "Value"     -> { << "-", "o" >>, << "-", "c" >>, << "f", "o", "o" >>,
                            << "-", "h" >> }

\* The longest token list of a scenario: the command line of Simple() takes a
\* value option, those of the value scenario one on the root and one on the
\* command; the sanity rules are about the schema, not the tokens.
MaxArgs(s) ==
  CASE s = "Simple" -> MaxTokens + 1
    [] s = "Value"  -> MaxTokens + 2
    [] s \in { "SanityFlat", "SanityCmd" } -> MaxTokens - 1
    [] OTHER        -> MaxTokens

\* argv[0]
ProgramName == << "t", "h", "i", "n", "g", ".", "e", "x", "e" >>

\* Every token list of at most n tokens of S, after argv[0].
ArgvOver(S, n) ==
  { << ProgramName >> \o t : t \in UNION { [ 1..k -> S ] : k \in 0..n } }

ParamsWithin(a, n) ==
  /\ Len(a.Params) <= n
  /\ \A c \in 1..Len(a.Commands) : Len(a.Commands[c].Params) <= n

\* ------------------------------------------------------------------------
\* The state machine: a program that owns one Args object and calls it
\* ------------------------------------------------------------------------

VARIABLES
  scn,      \* the scenario: which program this is
  args,     \* the Args object
  argv,     \* the token array of the caller's current block, << >> outside one
  lastOp,   \* the last call made
  startAt,  \* startAt of the last Parse call
  ret,      \* what the last Parse call returned
  msg,      \* the diagnostic of the last Parse call
  exec,     \* the outcome of the last ExecCommand call
  calls,    \* the number of Parse calls made so far
  sub       \* the second Args object of the block (subEnd of test.cpp:99)

vars == << scn, args, argv, lastOp, startAt, ret, msg, exec, calls, sub >>

NoExec == [ outcome |-> "none", ret |-> 0, called |-> 0 ]

Init ==
  /\ scn \in Scenarios
  /\ args = Build(scn)
  /\ argv = << >>
  /\ lastOp = "construct"
  /\ startAt = 0
  /\ ret = FALSE
  /\ msg = ""
  /\ exec = NoExec
  /\ calls = 0
  /\ sub = BuildSubEnd

\* The caller enters a block that declares a token array (test.cpp: const
\* char* a[] = {...}; main: the argv it was started with).
BeginBlock ==
  /\ argv = << >>
  /\ calls < MaxCalls
  /\ \E t \in ArgvOver(Vocabulary(scn), MaxArgs(scn)) : argv' = t
  /\ lastOp' = "block"
  /\ startAt' = 0 /\ ret' = FALSE /\ msg' = "" /\ exec' = NoExec
  /\ UNCHANGED << scn, args, calls, sub >>

\* The caller leaves the block; the Args object lives on.
EndBlock ==
  /\ argv # << >>
  /\ argv' = << >>
  /\ lastOp' = "end"
  /\ startAt' = 0 /\ ret' = FALSE /\ msg' = "" /\ exec' = NoExec
  /\ UNCHANGED << scn, args, calls, sub >>

\* args.Parse(argc, argv, startAt) with argc the length of the array.
ParseCall ==
  /\ argv # << >>
  /\ calls < MaxCalls
  /\ calls' = calls + 1
  /\ \E s \in 1..MaxStart :
       LET r == Parse(args, Len(argv), argv, s) IN
       /\ ParamsWithin(r.a, MaxParams)
       /\ args' = r.a
       /\ ret' = r.ret
       /\ msg' = r.msg
       /\ startAt' = s
  /\ lastOp' = "Parse"
  /\ exec' = NoExec
  /\ UNCHANGED << scn, argv, sub >>

\* args.ShowHelp()
ShowHelpCall ==
  /\ argv = << >>
  /\ args' = ShowHelp(args)
  /\ lastOp' = "ShowHelp"
  /\ startAt' = 0 /\ ret' = FALSE /\ msg' = "" /\ exec' = NoExec
  /\ UNCHANGED << scn, argv, calls, sub >>

\* args.ExecCommand()
ExecCommandCall ==
  /\ argv = << >>
  /\ exec' = ExecCommand(args)
  /\ lastOp' = "ExecCommand"
  /\ startAt' = 0 /\ ret' = FALSE /\ msg' = ""
  /\ UNCHANGED << scn, args, argv, calls, sub >>

Next ==
  \/ BeginBlock
  \/ ParseCall
  \/ ShowHelpCall
  \/ ExecCommandCall
  \/ EndBlock

Spec == Init /\ [][Next]_vars

\* args.Parse(argc, argv, startAt) of the header with ParseEnd.
ParseWithEndCall ==
  /\ argv # << >>
  /\ calls < MaxCalls
  /\ calls' = calls + 1
  /\ \E s \in 1..MaxStart :
       LET r == ParseWithEnd(args, Len(argv), argv, s) IN
       /\ ParamsWithin(r.a, MaxParams)
       /\ args' = r.a
       /\ ret' = r.ret
       /\ msg' = r.msg
       /\ startAt' = s
  /\ lastOp' = "Parse"
  /\ exec' = NoExec
  /\ UNCHANGED << scn, argv, sub >>

\* test.cpp:99-102: after a successful Parse, a second Args object, built in
\* the block, parses the same array from args.ParseEnd.
SubParseCall ==
  /\ argv # << >>
  /\ lastOp = "Parse" /\ ret
  /\ LET r == Parse(BuildSubEnd, Len(argv), argv, args.ParseEnd) IN
       /\ sub' = r.a
       /\ ret' = r.ret
       /\ msg' = r.msg
  /\ startAt' = args.ParseEnd
  /\ lastOp' = "SubParse"
  /\ exec' = NoExec
  /\ UNCHANGED << scn, args, argv, calls >>

\* The program of WithCommands() against the header with ParseEnd, one block
\* with one Parse of args.
InitEnd ==
  /\ scn = "End"
  /\ args = Build(scn)
  /\ argv = << >>
  /\ lastOp = "construct"
  /\ startAt = 0
  /\ ret = FALSE
  /\ msg = ""
  /\ exec = NoExec
  /\ calls = 0
  /\ sub = BuildSubEnd

NextEnd ==
  \/ calls = 0 /\ BeginBlock
  \/ calls = 0 /\ ParseWithEndCall
  \/ SubParseCall
  \/ calls = 0 /\ ShowHelpCall
  \/ ExecCommandCall
  \/ EndBlock

SpecEnd == InitEnd /\ [][NextEnd]_vars

\* The programs without commands as a main that parses its command line once
\* and ends: no call follows the first Parse.
InitSimple == Init /\ scn \in NoCommandScenarios

NextOnce ==
  \/ calls = 0 /\ BeginBlock
  \/ calls = 0 /\ ParseCall
  \/ calls = 0 /\ ShowHelpCall
  \/ calls = 0 /\ ExecCommandCall
  \/ calls = 0 /\ EndBlock

SpecSimple == InitSimple /\ [][NextOnce]_vars

\* A program that calls Parse at most twice: no call follows the second.
NextTwice ==
  \/ calls < 2 /\ BeginBlock
  \/ calls < 2 /\ ParseCall
  \/ calls < 2 /\ ShowHelpCall
  \/ calls < 2 /\ ExecCommandCall
  \/ calls < 2 /\ EndBlock

\* The programs with commands.
InitCommands == Init /\ scn \in CommandScenarios

SpecCommands == InitCommands /\ [][NextTwice]_vars

\* The programs whose command lines ask for help with -h and --help.
InitHelp == Init /\ scn \in { "HelpShort", "HelpLong", "CmdHelp" }

SpecHelp == InitHelp /\ [][NextTwice]_vars

\* The program of WithCommands(), test.cpp.
InitWithCommands == Init /\ scn = "Commands"

SpecWithCommands == InitWithCommands /\ [][NextTwice]_vars

\* The program whose command lines use the slash spellings of help.
InitSlash == Init /\ scn = "Slash"

SpecSlash == InitSlash /\ [][NextTwice]_vars

\* The state after the construction of the scenario s.
InitAs(s) ==
  /\ scn = s
  /\ args = Build(s)
  /\ argv = << >>
  /\ lastOp = "construct"
  /\ startAt = 0
  /\ ret = FALSE
  /\ msg = ""
  /\ exec = NoExec
  /\ calls = 0
  /\ sub = BuildSubEnd

\* The program of Simple() with command lines of tokens that start with -
\* and name no option (test.cpp:30-33).
InitNumeric == InitAs("Numeric")

SpecNumeric == InitNumeric /\ [][NextTwice]_vars

\* The program whose command lines give value options values that look like
\* options, help spellings and command names; one Parse call.
InitValue == InitAs("Value")

SpecValue == InitValue /\ [][NextOnce]_vars

\* The Args object has the options and commands it was constructed with.
Unedited ==
  /\ Len(args.Options) = Len(Build(scn).Options)
  /\ Len(args.Commands) = Len(Build(scn).Commands)
  /\ \A c \in 1..Len(Build(scn).Commands) :
       /\ Len(args.Commands[c].Options) = Len(Build(scn).Commands[c].Options)
       /\ Len(args.Commands[c].Commands) = 0

\* The names of the switch a program adds late: each repeats a name of
\* Simple() or WithCommands() as a short or as a long name, has a short name
\* of two characters, or is new.
LateNames ==
  { << << "f" >>, << "o", "t", "h", "e", "r" >> >>,
    << << >>, << "f", "o", "r", "c", "e" >> >>,
    << << >>, << "f", "o", "o", "1" >> >>,
    << << "a", "b" >>, << "a", "b", "c" >> >>,
    << << >>, << "f" >> >>,
    << << "q" >>, << "q", "u", "i", "e", "t" >> >> }

\* args.AddSwitch(...) or cmd->AddSwitch(...) between two blocks; target 0 is
\* the root.
AddSwitchCall ==
  /\ argv = << >>
  /\ Unedited
  /\ \E target \in 0..Len(args.Commands), n \in LateNames :
       args' = IF target = 0 THEN AddSwitch(args, n[1], n[2])
               ELSE [ args EXCEPT !.Commands[target] = AddSwitch(@, n[1], n[2]) ]
  /\ lastOp' = "AddSwitch"
  /\ startAt' = 0 /\ ret' = FALSE /\ msg' = "" /\ exec' = NoExec
  /\ UNCHANGED << scn, argv, calls, sub >>

\* args.AddCommand(...) or cmd->AddCommand(...) between two blocks.
AddCommandCall ==
  /\ argv = << >>
  /\ Unedited
  /\ \E target \in 0..Len(args.Commands) :
       args' = IF target = 0 THEN AddCommand(args, << "f", "o", "o" >>, "Foo")
               ELSE [ args EXCEPT !.Commands[target] =
                        AddCommand(@, << "f", "o", "o" >>, "Foo") ]
  /\ lastOp' = "AddCommand"
  /\ startAt' = 0 /\ ret' = FALSE /\ msg' = "" /\ exec' = NoExec
  /\ UNCHANGED << scn, argv, calls, sub >>

\* The programs that add one switch or one command to the Args object of
\* the readme example or of WithCommands(), before or between at most two
\* Parse calls.
InitSanity == InitAs("SanityFlat") \/ InitAs("SanityCmd")

NextSanity ==
  \/ calls < 2 /\ BeginBlock
  \/ calls < 2 /\ ParseCall
  \/ calls < 2 /\ AddSwitchCall
  \/ calls < 2 /\ AddCommandCall
  \/ calls < 2 /\ ShowHelpCall
  \/ calls < 2 /\ ExecCommandCall
  \/ calls < 2 /\ EndBlock

SpecSanity == InitSanity /\ [][NextSanity]_vars

\* An Args object of the header without commands, built in the block with
\* the options of the scenario, parses the token array of the block.
ParseOldCall ==
  /\ argv # << >>
  /\ lastOp = "block"
  /\ \E s \in 1..MaxStart :
       LET r == ParseOld(ArgsOld(Build(scn)), Len(argv), argv, s) IN
       /\ sub' = r.a
       /\ ret' = r.ret
       /\ msg' = r.msg
       /\ startAt' = s
  /\ lastOp' = "ParseOld"
  /\ exec' = NoExec
  /\ UNCHANGED << scn, args, argv, calls >>

\* The programs without commands that give one token array to both headers:
\* first the one without commands, then an unused Args object of argparse.h,
\* in the one block that follows the construction.
InitSubset == \E s \in NoCommandScenarios \cup { "Numeric" } : InitAs(s)

NextSubset ==
  \/ calls = 0 /\ sub = BuildSubEnd /\ BeginBlock
  \/ calls = 0 /\ ParseOldCall
  \/ calls = 0 /\ ParseCall
  \/ calls = 0 /\ ShowHelpCall
  \/ calls = 0 /\ ExecCommandCall
  \/ calls = 0 /\ EndBlock

SpecSubset == InitSubset /\ [][NextSubset]_vars

\* The programs with commands whose Parse calls fail after the command token:
\* an unknown option (WithCommands), a wrong parameter count (the readme
\* example) or a missing value.
InitChosen == InitAs("Commands") \/ InitAs("Params") \/ InitAs("Chosen")

SpecChosen == InitChosen /\ [][NextTwice]_vars

\* ------------------------------------------------------------------------
\* Vocabulary of the properties
\* ------------------------------------------------------------------------

\* The Args object of this program as it was before any call.
Fresh == Build(scn)

\* The root schema passes the sanity rules.
ValidSchema == ValidateSanity(Fresh, 0)

\* The result fields of an Args object: every option's Toggled and Value, the
\* positional list, and the same with the chosen flag for every command.
RECURSIVE ResultState(_)
ResultState(a) ==
  [ options  |-> [ k \in 1..Len(a.Options) |->
                     << a.Options[k].Toggled, a.Options[k].Value >> ],
    params   |-> a.Params,
    chosen   |-> a.CmdWasChosen,
    commands |-> [ c \in 1..Len(a.Commands) |-> ResultState(a.Commands[c]) ] ]

\* The state is the one a Parse call has just returned to.
AfterParse == lastOp = "Parse"

\* argc of the current block.
Argc == Len(argv)

\* ------------------------------------------------------------------------
\* C1
\* ------------------------------------------------------------------------

\* C1: after the second of two consecutive Parse calls on one Args object,
\* the result fields and the value returned are those of the same call made
\* on a freshly built Args object with the same schema.
C1_NoLeakAcrossParses ==
  (AfterParse /\ calls >= 2) =>
    LET f == Parse(Fresh, Argc, argv, startAt) IN
    /\ ret = f.ret
    /\ ResultState(args) = ResultState(f.a)

\* ------------------------------------------------------------------------
\* C2
\* ------------------------------------------------------------------------

\* The tokens at or after startAt hold no name of a declared command.
NoCommandToken ==
  \A p \in (startAt + 1)..Argc : FindCommand(Fresh, argv[p]) = 0

\* C2: on a valid schema, Parse with no tokens at or after the start index
\* returns true iff the root declares no commands, and with commands declared
\* a token list without a command token makes Parse return false.
C2_EmptyListNeedsCommand ==
  (AfterParse /\ ValidSchema) =>
    /\ startAt >= Argc => (ret <=> Len(Fresh.Commands) = 0)
    /\ (Len(Fresh.Commands) # 0 /\ NoCommandToken) => ~ret

\* ------------------------------------------------------------------------
\* The classification of tokens as the specification words it
\* ------------------------------------------------------------------------

\* tok is -<short> or --<long> of opt.
NamedBy(opt, tok) ==
  \/ HasShort(opt) /\ tok = << "-" >> \o opt.Short
  \/ tok = << "-", "-" >> \o opt.Long

\* The options of sch that tok names.
OptionsNamed(sch, tok) ==
  { k \in 1..Len(sch.Options) : NamedBy(sch.Options[k], tok) }

\* Among the tokens argv[lo..], read against the schema sch: argv[p] was
\* consumed as the value of the value option before it / argv[p] is in option
\* position and names an option of sch.
RECURSIVE IsValueAt(_, _, _), IsOptionAt(_, _, _)
IsValueAt(sch, lo, p) ==
  /\ p > lo
  /\ IsOptionAt(sch, lo, p - 1)
  /\ \E k \in OptionsNamed(sch, argv[p - 1]) : sch.Options[k].ExpectsValue

IsOptionAt(sch, lo, p) ==
  /\ ~IsValueAt(sch, lo, p)
  /\ OptionsNamed(sch, argv[p]) # { }

\* The positions lo..hi at which a token names the option k of sch.
MatchesOf(sch, lo, hi, k) ==
  { p \in lo..hi : IsOptionAt(sch, lo, p) /\ k \in OptionsNamed(sch, argv[p]) }

\* The tokens of argv[p..hi], in order, that are neither matched options nor
\* consumed values.
RECURSIVE Leftover(_, _, _, _)
Leftover(sch, lo, p, hi) ==
  IF p > hi THEN << >>
  ELSE (IF IsOptionAt(sch, lo, p) \/ IsValueAt(sch, lo, p)
        THEN << >> ELSE << argv[p] >>)
       \o Leftover(sch, lo, p + 1, hi)

Largest(S) == CHOOSE x \in S : \A y \in S : y <= x

\* ------------------------------------------------------------------------
\* C3
\* ------------------------------------------------------------------------

\* C3: on a valid schema without commands and an Args object with no prior
\* parse, when Parse returns true, Has is true exactly for the options some
\* token in option position named, Get of a toggled value option is the token
\* after its last occurrence and of an untoggled one its default, and Params
\* is the sequence of the tokens that were neither options nor values.
C3_SuccessfulParseResult ==
  (AfterParse /\ calls = 1 /\ ValidSchema /\ Len(Fresh.Commands) = 0 /\ ret) =>
    LET lo == startAt + 1 IN
    /\ \A k \in 1..Len(Fresh.Options) :
         LET opt  == Fresh.Options[k]
             hits == MatchesOf(Fresh, lo, Argc, k)
         IN
         /\ Has(args, opt.Long) <=> hits # { }
         /\ HasShort(opt) => (Has(args, opt.Short) <=> hits # { })
         /\ opt.ExpectsValue =>
              Get(args, opt.Long) =
                IF hits # { } THEN argv[Largest(hits) + 1] ELSE opt.Default
    /\ args.Params = Leftover(Fresh, lo, lo, Argc)

\* The command line of Simple(), test.cpp:17, one positional shorter.
C3_Witness ==
  /\ AfterParse /\ calls = 1 /\ scn = "Simple" /\ ret
  /\ argv = << ProgramName, << "-", "f" >>,
               << "-", "-", "o", "u", "t", "f", "i", "l", "e" >>,
               << "p", "o", "s", "1" >>, << "p", "o", "s", "2" >> >>
  /\ startAt = 1
  /\ Has(args, << "f" >>)
  /\ Has(args, << "o" >>)
  /\ ~Has(args, << "p", "r", "e", "s", "e", "r", "v", "e" >>)
  /\ Get(args, << "o", "u", "t", "f", "i", "l", "e" >>) = << "p", "o", "s", "1" >>
  /\ Get(args, << "c" >>) = << "7" >>
  /\ args.Params = << << "p", "o", "s", "2" >> >>

\* ------------------------------------------------------------------------
\* C4
\* ------------------------------------------------------------------------

\* The first position of argv[lo..hi] that, read against the root schema, is
\* neither a matched option nor a consumed value; 0 if there is none.
RECURSIVE CommandPosition(_, _, _)
CommandPosition(lo, p, hi) ==
  IF p > hi THEN 0
  ELSE IF IsOptionAt(Fresh, lo, p) \/ IsValueAt(Fresh, lo, p)
  THEN CommandPosition(lo, p + 1, hi)
  ELSE p

\* The declared commands whose name is tok.
CommandsNamed(tok) ==
  { d \in 1..Len(Fresh.Commands) : Fresh.Commands[d].CmdName = tok }

Smallest(S) == CHOOSE x \in S : \A y \in S : x <= y

\* A step is a Parse call that passes the sanity rules.
ParseStepTaken == lastOp' = "Parse" /\ msg' # "sanity"

\* What C4 says of one Parse call whose token in command position is at j.
C4_AtCommandPosition(lo, j) ==
  IF CommandsNamed(argv[j]) = { }
  THEN ret' = FALSE
  ELSE LET c   == Smallest(CommandsNamed(argv[j]))
           sch == Fresh.Commands[c]
       IN
       /\ WhichCommand(args') = c
       /\ \A d \in 1..Len(Fresh.Commands) : args'.Commands[d].CmdWasChosen <=> d = c
       /\ \A k \in 1..Len(Fresh.Options) :
            args'.Options[k].Toggled <=> MatchesOf(Fresh, lo, j - 1, k) # { }
       /\ args'.Params = args.Params
       /\ \A d \in 1..Len(Fresh.Commands) :
            d # c => args'.Commands[d].Params = args.Commands[d].Params
       /\ (ret' \/ msg' = "parameter count") =>
            /\ \A k \in 1..Len(sch.Options) :
                 args'.Commands[c].Options[k].Toggled
                   <=> MatchesOf(sch, j + 1, Argc, k) # { }
            /\ args'.Commands[c].Params =
                 args.Commands[c].Params \o Leftover(sch, j + 1, j + 1, Argc)

\* C4: with commands declared, the first token that is not a matched root
\* option selects the command it names: that command alone is chosen, the
\* token joins no positional list, the options before it are toggled on the
\* root and the options and positionals after it on the chosen command; a
\* token in command position that names no command makes Parse return false.
C4_CommandSelection ==
  [][ (ParseStepTaken /\ Len(Fresh.Commands) # 0) =>
        LET lo == startAt' + 1
            j  == CommandPosition(lo, lo, Argc)
        IN j # 0 => C4_AtCommandPosition(lo, j) ]_vars

\* test.cpp:79-84.
C4_Witness ==
  /\ AfterParse /\ scn = "Commands" /\ ret
  /\ argv = << ProgramName, << "-", "v" >>, << "f", "o", "o" >>,
               << "-", "-", "f", "o", "o", "1" >> >>
  /\ startAt = 1
  /\ Has(args, << "v" >>)
  /\ WhichCommand(args) = 1
  /\ Has(args.Commands[1], << "f", "o", "o", "1" >>)

\* ------------------------------------------------------------------------
\* C5
\* ------------------------------------------------------------------------

\* The positionals the tokens of the last Parse call give the command c: the
\* tokens after the command token that are neither options nor values of c.
GivenParams(c) ==
  LET lo == startAt + 1
      j  == CommandPosition(lo, lo, Argc)
  IN Leftover(Fresh.Commands[c], j + 1, j + 1, Argc)

\* C5: for a chosen command that enforces its parameter count, Parse returns
\* true only if the tokens of that call give it as many positionals as its
\* parameter text has <...> placeholders.
C5_ParamCountEnforced ==
  (AfterParse /\ ret /\ WhichCommand(args) # 0) =>
    LET c == WhichCommand(args) IN
    Fresh.Commands[c].CmdEnforceParams =>
      Len(GivenParams(c)) = CmdParamsCount(Fresh.Commands[c])

\* ------------------------------------------------------------------------
\* C6
\* ------------------------------------------------------------------------

TokShortH == << "-", "h" >>

TokLongHelp == << "-", "-", "h", "e", "l", "p" >>

\* The last Parse call had tok as its only token after the start index.
SoleToken(tok) == AfterParse /\ Argc = startAt + 1 /\ argv[Argc] = tok

DeclaresShortH ==
  \E k \in 1..Len(Fresh.Options) : Fresh.Options[k].Short = << "h" >>

DeclaresLongHelp ==
  \E k \in 1..Len(Fresh.Options) : Fresh.Options[k].Long = << "h", "e", "l", "p" >>

C7_HelpShownIffHelpRequested ==
  (AfterParse /\ ~ret) => (args.WasHelpShown <=> msg = "help")

\* ------------------------------------------------------------------------
\* C8
\* ------------------------------------------------------------------------

\* The reserved help tokens: the seven spellings and, in command position of
\* a root with commands, the literal help.
IsReservedHelp(tok) ==
  \/ tok \in { << "-", "h" >>, << "-", "h", "e", "l", "p" >>,
               << "-", "-", "h", "e", "l", "p" >>, << "-", "?" >>,
               << "/", "?" >>, << "/", "h" >>, << "/", "h", "e", "l", "p" >> }
  \/ tok = << "h", "e", "l", "p" >> /\ Len(Fresh.Commands) # 0

\* C8: a reserved help token reached by the token pass (the first token of
\* the pass always is) makes Parse display help and return false with
\* WasHelpShown set, and is never collected as a positional.
C8_ReservedHelpTokens ==
  (AfterParse /\ msg # "sanity" /\ startAt < Argc
     /\ IsReservedHelp(argv[startAt + 1])) =>
    /\ ~ret
    /\ msg = "help"
    /\ args.WasHelpShown

\* ------------------------------------------------------------------------
\* C9
\* ------------------------------------------------------------------------

\* The positions after the command token at j at which a -- token stands that
\* the command's schema sch did not consume as the value of an option.
EndMarkers(sch, j) ==
  { q \in (j + 1)..Argc :
      argv[q] = << "-", "-" >> /\ ~IsValueAt(sch, j + 1, q) }

\* What C9 says of a successful Parse call that started at lo - 1.  The token
\* at the position p of argv has the index p - 1, so "just past" it is p.
C9_EndOfParse(lo) ==
  LET j == CommandPosition(lo, lo, Argc) IN
  IF j = 0 THEN args'.ParseEnd = Argc
  ELSE LET c   == Smallest(CommandsNamed(argv[j]))
           sch == Fresh.Commands[c]
       IN
       IF sch.IgnoreAfter
       THEN /\ args'.ParseEnd = j
            /\ \A k \in 1..Len(sch.Options) : ~args'.Commands[c].Options[k].Toggled
            /\ args'.Commands[c].Params = args.Commands[c].Params
            /\ ResultState(args') =
                 ResultState(ParseWithEnd(args, j, SubSeq(argv, 1, j), lo - 1).a)
       ELSE IF EndMarkers(sch, j) # { }
       THEN args'.ParseEnd = Smallest(EndMarkers(sch, j))
       ELSE args'.ParseEnd = Argc

\* What C9 says of the second Parse, made by another Args object from the
\* recorded end: it starts there, and when it returns true its options are
\* toggled by, and its positionals are, the tokens from the end index on.
C9_SecondParse ==
  LET lo == args.ParseEnd + 1 IN
  /\ startAt' = args.ParseEnd
  /\ ret' =>
       /\ \A k \in 1..Len(BuildSubEnd.Options) :
            sub'.Options[k].Toggled <=> MatchesOf(BuildSubEnd, lo, Argc, k) # { }
       /\ sub'.Params = Leftover(BuildSubEnd, lo, lo, Argc)

C9_WitnessMarker ==
  /\ AfterParse /\ scn = "End" /\ ret
  /\ argv = << ProgramName, << "f", "o", "o" >>, << "-", "-" >>, << "e", "n", "d" >> >>
  /\ args.ParseEnd = 3
  /\ WhichCommand(args) = 1

\* ------------------------------------------------------------------------
\* C10
\* ------------------------------------------------------------------------

\* C10: ExecCommand returns the code of the chosen command's handler, called
\* on the chosen command, when a command is chosen and has a handler; it
\* returns 1 without calling anything and without aborting otherwise.
C10_ExecCommandResult ==
  lastOp = "ExecCommand" =>
    LET c == WhichCommand(args) IN
    /\ exec.outcome = "return"
    /\ IF c # 0 /\ Fresh.Commands[c].CmdFunc # "nullptr"
       THEN /\ exec.called = c
            /\ exec.ret = CallCmdFunc(Fresh.Commands[c].CmdFunc, args.Commands[c])
       ELSE /\ exec.called = 0
            /\ exec.ret = 1

\* ------------------------------------------------------------------------
\* C11
\* ------------------------------------------------------------------------

Digits == { "0", "1", "2", "3", "4", "5", "6", "7", "8", "9" }

\* tok is a signed decimal or float literal: at most one leading sign, then
\* digits, . and e, with a digit among them.
IsSignedLiteral(tok) ==
  LET body == IF tok # << >> /\ tok[1] \in { "+", "-" } THEN Tail(tok) ELSE tok IN
  /\ \A k \in 1..Len(body) : body[k] \in Digits \cup { ".", "e" }
  /\ \E k \in 1..Len(body) : body[k] \in Digits

\* The first token of the last Parse call starts with -, names no option of
\* the root and is not a help spelling.  The first token of a pass is always
\* reached in option position, with the root as the active schema.
UnmatchedDashFirst ==
  /\ AfterParse /\ msg # "sanity" /\ startAt < Argc
  /\ LET tok == argv[startAt + 1] IN
     /\ tok # << >> /\ tok[1] = "-"
     /\ OptionsNamed(Fresh, tok) = { }
     /\ ~IsReservedHelp(tok)

\* C11: a token that starts with -, matches no option and is no help
\* spelling makes Parse return false with "unknown option" unless the whole
\* token is a signed decimal or float literal.
C11_UnknownOptionUnlessLiteral ==
  (UnmatchedDashFirst /\ ~IsSignedLiteral(argv[startAt + 1])) =>
    (~ret /\ msg = "unknown option")

\* ------------------------------------------------------------------------
\* C12
\* ------------------------------------------------------------------------

StartsDash(tok) == tok # << >> /\ tok[1] = "-"

\* Among the tokens argv[lo..] read against sch, the pass ends at argv[q]: a
\* token in option position that starts with - and names no option (a help
\* spelling or an unknown option).
Stops(sch, lo, q) ==
  /\ ~IsValueAt(sch, lo, q)
  /\ ~IsOptionAt(sch, lo, q)
  /\ StartsDash(argv[q])
  /\ ~IsSignedLiteral(argv[q])

\* The pass reaches argv[p].
ReachedIn(sch, lo, p) == \A q \in lo..(p - 1) : ~Stops(sch, lo, q)

\* The occurrences of the value option k of sch that the pass reaches and that
\* have a token after them.
ValuedMatches(sch, lo, hi, k) ==
  { p \in MatchesOf(sch, lo, hi, k) : ReachedIn(sch, lo, p) /\ p < Argc }

\* What C12 says of the tokens argv[lo..hi], read against the schema sch of
\* the object obj (as built) whose state after the call is res.  With
\* strict, an option whose name is the last token is not toggled at all;
\* without, it is toggled iff an earlier occurrence took a value.
C12_Segment(sch, res, lo, hi, strict) ==
  /\ \A k \in 1..Len(sch.Options) :
       sch.Options[k].ExpectsValue =>
         /\ (Argc \in MatchesOf(sch, lo, hi, k) /\ ReachedIn(sch, lo, Argc)) =>
              /\ ~ret /\ msg = "missing value"
              /\ IF strict THEN ~res.Options[k].Toggled
                 ELSE res.Options[k].Toggled <=> ValuedMatches(sch, lo, hi, k) # { }
         /\ ValuedMatches(sch, lo, hi, k) # { } =>
              /\ res.Options[k].Toggled
              /\ res.Options[k].Value = argv[Largest(ValuedMatches(sch, lo, hi, k)) + 1]
  /\ \A k \in 1..Len(sch.Options) :
       res.Options[k].Toggled => MatchesOf(sch, lo, hi, k) # { }
  /\ (ret \/ msg = "parameter count") => res.Params = Leftover(sch, lo, lo, hi)

\* C12 over the root's tokens and, after the command token, the command's:
\* a consumed value is no option (toggles come from option positions only),
\* no positional (Params are the leftover tokens) and no command (the chosen
\* command is the one the token in command position names).
C12_Pass(strict) ==
  (AfterParse /\ msg # "sanity" /\ calls = 1 /\ Len(Fresh.Commands) # 0) =>
    LET lo == startAt + 1
        j  == CommandPosition(lo, lo, Argc)
    IN
    /\ C12_Segment(Fresh, args, lo, IF j = 0 THEN Argc ELSE j - 1, strict)
    /\ \A d \in 1..Len(Fresh.Commands) :
         args.Commands[d].CmdWasChosen <=>
           (j # 0 /\ CommandsNamed(argv[j]) # { } /\ d = Smallest(CommandsNamed(argv[j])))
    /\ (j # 0 /\ CommandsNamed(argv[j]) # { }) =>
         LET c == Smallest(CommandsNamed(argv[j])) IN
         C12_Segment(Fresh.Commands[c], args.Commands[c], j + 1, Argc, strict)

\* C12 as stated: a value option whose name is the last token makes Parse
\* return false with "missing value" and is not toggled; otherwise the next
\* token is its value whatever it looks like, the option is toggled, and the
\* value token is not classified as an option, command or positional.
C12_ValueTakenVerbatim == C12_Pass(TRUE)

\* C12 amended: as stated, except that the option whose name is the last
\* token is toggled iff an earlier occurrence of it in the same call took a
\* value.
C12_ValueTakenVerbatimAmended == C12_Pass(FALSE)

\* -o takes the command name foo as its value, the second foo is the command,
\* and -c of foo takes the help spelling -h as its value.
C12_Witness ==
  /\ AfterParse /\ scn = "Value" /\ calls = 1 /\ ret /\ startAt = 1
  /\ argv = << ProgramName, << "-", "o" >>, << "f", "o", "o" >>, << "f", "o", "o" >>,
               << "-", "c" >>, << "-", "h" >> >>
  /\ Get(args, << "o" >>) = << "f", "o", "o" >>
  /\ WhichCommand(args) = 1
  /\ Get(args.Commands[1], << "c" >>) = << "-", "h" >>
  /\ args.Commands[1].Params = << >>
  /\ ~args.WasHelpShown

\* ------------------------------------------------------------------------
\* C13
\* ------------------------------------------------------------------------

\* The options of the OptionSet a break a rule: a non-empty short name that
\* is not one character, or two options with the same short name or the same
\* long name.
BadOptions(a) ==
  \/ \E k \in 1..Len(a.Options) :
       HasShort(a.Options[k]) /\ Len(a.Options[k].Short) # 1
  \/ \E k1, k2 \in 1..Len(a.Options) :
       /\ k1 # k2
       /\ \/ HasShort(a.Options[k1]) /\ a.Options[k1].Short = a.Options[k2].Short
          \/ a.Options[k1].Long = a.Options[k2].Long

\* The schema of the root a violates a sanity rule, at the root or in a
\* command.
ViolatesSanity(a) ==
  \/ BadOptions(a)
  \/ Len(a.Commands) # 0 /\ a.Params # << >>
  \/ \E c \in 1..Len(a.Commands) :
       \/ BadOptions(a.Commands[c])
       \/ Len(a.Commands[c].Commands) # 0

\* C13: a Parse call on a schema that violates a sanity rule returns false
\* and leaves every result field as it was before the call.
C13_SanityFailureChangesNothing ==
  [][ (lastOp' = "Parse" /\ ViolatesSanity(args)) =>
        /\ ret' = FALSE
        /\ ResultState(args') = ResultState(args)
        /\ args' = args ]_vars

\* A Parse that toggled -v and chose foo, a switch added to foo that repeats
\* its short name, and a second Parse of other tokens: rejected, with the
\* results of the first still in place.
C13_Witness ==
  /\ AfterParse /\ scn = "SanityCmd" /\ calls = 2 /\ ~ret /\ msg = "sanity"
  /\ BadOptions(args.Commands[1])
  /\ ~BadOptions(args)
  /\ argv = << ProgramName, << "f", "o", "o" >>, << "-", "-", "f", "o", "o", "1" >> >>
  /\ startAt = 1
  /\ Has(args, << "v" >>)
  /\ WhichCommand(args) = 1
  /\ ~Has(args.Commands[1], << "f", "o", "o", "1" >>)

\* ------------------------------------------------------------------------
\* C14
\* ------------------------------------------------------------------------

\* One option of the OptionSet a has a short name that is the long name of
\* another option of a.
CrossNamed(a) ==
  \E k1, k2 \in 1..Len(a.Options) :
    /\ k1 # k2
    /\ HasShort(a.Options[k1])
    /\ a.Options[k1].Short = a.Options[k2].Long

\* The same at the root or in a command.
CrossNamedSchema(a) ==
  \/ CrossNamed(a)
  \/ \E c \in 1..Len(a.Commands) : CrossNamed(a.Commands[c])

\* C14 as stated: a schema in which one option's short name is another
\* option's long name, with no other violation, passes validation: Parse
\* goes on to the token pass.
C14_SeparatePools ==
  [][ (lastOp' = "Parse" /\ CrossNamedSchema(args) /\ ~ViolatesSanity(args))
        => msg' # "sanity" ]_vars

\* C14 amended: short names and long names are checked in one pool: a schema
\* in which one option's short name is another option's long name fails
\* validation, and Parse returns false before the token pass.
C14_OnePool ==
  [][ (lastOp' = "Parse" /\ CrossNamedSchema(args))
        => (ret' = FALSE /\ msg' = "sanity" /\ args' = args) ]_vars

\* The switch --f added to the schema of the readme example, which has the
\* switch -f/--force: -f is rejected with the schema.
C14_Witness ==
  /\ AfterParse /\ scn = "SanityFlat" /\ ~ret /\ msg = "sanity"
  /\ CrossNamed(args) /\ ~ViolatesSanity(args)
  /\ argv = << ProgramName, << "-", "f" >> >>
  /\ startAt = 1
  /\ ~Has(args, << "f", "o", "r", "c", "e" >>)

\* ------------------------------------------------------------------------
\* C15
\* ------------------------------------------------------------------------

\* The toggled flags, the option values and the positional list of an Args
\* object of either header.
OptionResults(a) ==
  [ options |-> [ k \in 1..Len(a.Options) |->
                    << a.Options[k].Toggled, a.Options[k].Value >> ],
    params  |-> a.Params ]

\* C15: on a schema without commands, when Parse of the header without
\* commands returns true, Parse of argparse.h on the same schema, tokens and
\* start index returns true with the same toggled flags, option values and
\* positional list.
C15_OldHeaderIsSubset ==
  [][ ( /\ lastOp = "ParseOld" /\ ret
        /\ lastOp' = "Parse" /\ startAt' = startAt
        /\ Len(Fresh.Commands) = 0 )
      => ( ret' /\ OptionResults(args') = OptionResults(sub) ) ]_vars

\* The command line of src/unnamed/part_000:16, one positional shorter, given
\* to both headers.
C15_Witness ==
  /\ AfterParse /\ scn = "Simple" /\ ret /\ startAt = 1
  /\ argv = << ProgramName, << "-", "f" >>,
               << "-", "-", "o", "u", "t", "f", "i", "l", "e" >>,
               << "p", "o", "s", "1" >>, << "p", "o", "s", "2" >> >>
  /\ OptionResults(sub) = OptionResults(args)
  /\ sub.Params = << << "p", "o", "s", "2" >> >>
  /\ sub.Options[1].Toggled
  /\ sub.Options[3].Value = << "p", "o", "s", "1" >>

\* ------------------------------------------------------------------------
\* C16
\* ------------------------------------------------------------------------

\* The commands of the root a whose chosen flag is set.
ChosenCommands(a) == { d \in 1..Len(a.Commands) : a.Commands[d].CmdWasChosen }

\* The command a Parse call from lo - 1 selects: the first one named by the
\* token in command position, if there is such a token and such a command.
SelectedBy(lo) ==
  LET j == CommandPosition(lo, lo, Argc) IN
  IF j # 0 /\ CommandsNamed(argv[j]) # { }
  THEN { Smallest(CommandsNamed(argv[j])) }
  ELSE { }

\* C16: at most one command has its chosen flag set, at all times; a Parse
\* call that passes the sanity rules leaves chosen exactly the command it
\* selected, whether it then succeeds or fails, and so no command of an
\* earlier call.
C16_AtMostOneChosen ==
  /\ [](Cardinality(ChosenCommands(args)) <= 1)
  /\ [][ (lastOp' = "Parse" /\ msg' # "sanity") =>
           ChosenCommands(args') = SelectedBy(startAt' + 1) ]_vars

\* After a Parse that chose x and took a positional, foo is given one
\* positional instead of two: Parse fails and foo, alone, is chosen.
C16_Witness ==
  /\ AfterParse /\ scn = "Params" /\ calls = 2 /\ ~ret /\ msg = "parameter count"
  /\ argv = << ProgramName, << "f", "o", "o" >>, << "a" >> >>
  /\ startAt = 1
  /\ args.Commands[2].Params = << << "a" >> >>
  /\ ChosenCommands(args) = { 1 }
  /\ WhichCommand(args) = 1

====
